---- MODULE Spec2Model ----
(***************************************************************************)
(* The action/operation lifecycle of state/action.go: EnqueueAction,       *)
(* Begin, Finish (removeAndLog) and Log, each run by concurrent callers as *)
(* a jujutxn-style "build the ops, run them, retry on abort" loop against  *)
(* the shared collections actions, actionnotifications and operations.     *)
(***************************************************************************)
EXTENDS Integers, Sequences, FiniteSets, Bags, TLC

\* ---------------------------------------------------------------- bounds
NumCallers == 2
MaxSeq == 2
MaxTime == 2
MaxLogCalls == 1
MaxIdLen == 2

\* ------------------------------------------------------------- constants
ActionFailed == "failed"
ActionCompleted == "completed"
ActionCancelled == "cancelled"
ActionPending == "pending"
ActionRunning == "running"

ActionStatus == {ActionFailed, ActionCompleted, ActionCancelled, ActionPending, ActionRunning}

\* The three statuses of assertNotComplete's $nin list.
CompletedStatuses == {ActionCompleted, ActionCancelled, ActionFailed}

\* The precedence list the last finishing child scans.
statusCompletedOrder == <<ActionFailed, ActionCancelled, ActionCompleted>>

\* The attempt budget of the transaction runner behind db().Run.
nrRetries == 3

\* "1000 messages should be enough for anyone."
MaxLogMessages == 1000

Receivers == {"u0", "u1"}
OperationIds == {"op1", "op2"}
ActionNames == {"", "restart"}

VARIABLES
    actionsC,              \* actions collection: id -> actionDoc
    actionNotificationsC,  \* notification keys <<receiver, action id>>
    operationsC,           \* operations collection: id -> operationDoc
    taskSeq,               \* the store-backed "task" sequence: last value given
    life,                  \* receiver -> "alive" | "dying" | "dead"
    clock,                 \* nowToTheSecond
    calls,                 \* the bag of calls in flight, one per busy caller
    returned               \* what the step just taken returned to a caller, if anything

vars == <<actionsC, actionNotificationsC, operationsC, taskSeq, life, clock, calls, returned>>
store == <<actionsC, actionNotificationsC, operationsC>>

\* ------------------------------------------------------------- documents
NoAction == [id |-> 0, receiver |-> "", operation |-> "", status |-> "", logs |-> 0]
NoOperation == [found |-> FALSE, status |-> "", count |-> 0, tasks |-> <<>>]
\* updateOperationOp: nil ("none"), or the op on the operation document that
\* marks it Running ("running"), completes it ("complete": the last task) or
\* only counts the task ("count", asserting the count read).
NoOp == [update |-> "none", assert |-> 0, status |-> "", count |-> 0]
NoResults == [Status |-> "", Results |-> "", Message |-> ""]
NoReturn == [kind |-> "none", id |-> 0, err |-> "none"]
NewCall == [pc |-> "txn", kind |-> "none", a |-> NoAction, parent |-> FALSE, op |-> NoOp,
            attempt |-> 0, time |-> 0, name |-> "", results |-> NoResults]

\* An actionDoc that is stamped as started when it is built.
newActionDoc_Started(operationID, receiver, actionName, now) ==
    [receiver |-> receiver, name |-> actionName, operation |-> operationID,
     status |-> ActionPending, enqueued |-> now, started |-> now, completed |-> 0,
     message |-> "", results |-> "", logs |-> 0]

\* newActionDoc's actionDoc literal: status Pending, Started and Completed zero.
newActionDoc(operationID, receiver, actionName, now) ==
    [receiver |-> receiver, name |-> actionName, operation |-> operationID,
     status |-> ActionPending, enqueued |-> now, started |-> 0, completed |-> 0,
     message |-> "", results |-> "", logs |-> 0]

\* The key of the notification document: ensureActionMarker(receiver) + id.
notificationKey(receiver, id) == <<receiver, id>>

\* An in-memory action: the fields of a.doc the methods read.
newAction(id) ==
    [id |-> id, receiver |-> actionsC[id].receiver, operation |-> actionsC[id].operation,
     status |-> actionsC[id].status, logs |-> actionsC[id].logs]

\* The log is modelled by its length.  The lengths the model explores: the
\* first messages of a log, and the ones around the 1000th.
LogLengths ==
    (0 .. MaxLogCalls) \cup (MaxLogMessages - MaxLogCalls .. MaxLogMessages + MaxLogCalls)

\* The actions a caller can hold for a stored document: m.Action(id) at any
\* earlier moment.  A document is Pending with an empty log, then Running while
\* its log grows, then at its end state.
Handles(id) ==
    LET d == actionsC[id]
    IN {newAction(id), [newAction(id) EXCEPT !.status = ActionPending, !.logs = 0]}
       \cup IF d.started = 0 THEN {}
            ELSE {[newAction(id) EXCEPT !.status = ActionRunning, !.logs = k] :
                     k \in {n \in LogLengths : n <= d.logs}}

\* Begin and Finish read only the identity of the action in hand.
Identity(id) == [newAction(id) EXCEPT !.status = "", !.logs = 0]

\* A fresh operation document, as the store holds it before any child begins.
newOperationDoc == [status |-> ActionPending, started |-> 0, completed |-> 0, count |-> 0]

\* ------------------------------------------------------ operation lookup
RECURSIVE taskStatusFrom(_, _)
taskStatusFrom(opid, i) ==
    IF i > taskSeq THEN <<>>
    ELSE IF i \in DOMAIN actionsC /\ actionsC[i].operation = opid
         THEN <<actionsC[i].status>> \o taskStatusFrom(opid, i + 1)
         ELSE taskStatusFrom(opid, i + 1)

\* m.Operation(id) / parentOperation.Refresh(): the operation document and the
\* statuses of the actions whose parent it is.
Operation(opid) ==
    IF opid \in DOMAIN operationsC
    THEN [found |-> TRUE, status |-> operationsC[opid].status,
          count |-> operationsC[opid].count, tasks |-> taskStatusFrom(opid, 1)]
    ELSE NoOperation

Range(s) == {s[i] : i \in DOMAIN s}

\* ----------------------------------------------------------------- Init
Init ==
    /\ actionsC = <<>>
    /\ actionNotificationsC = {}
    /\ operationsC = [o \in {"op1"} |-> newOperationDoc]
    /\ taskSeq = 0
    /\ life = [r \in Receivers |-> "alive"]
    /\ clock = 1
    /\ calls = EmptyBag
    /\ returned = NoReturn

\* Some caller is free to start a call.
Free == BagCardinality(calls) < NumCallers

\* The calls in flight.
InFlight == BagToSet(calls)

\* A caller starts call, or a started call moves on from call to next.
Start(call) == calls' = calls (+) SetToBag({call})
Step(call, next) == calls' = (calls (-) SetToBag({call})) (+) SetToBag({next})

\* A runner that reports every transaction as failed, committed or not.
Return_Failed(call, err) ==
    /\ calls' = calls (-) SetToBag({call})
    /\ returned' = [kind |-> call.kind, id |-> call.a.id, err |-> "ErrExcessiveContention"]

\* call returns err to its caller.
Return(call, err) ==
    /\ calls' = calls (-) SetToBag({call})
    /\ returned' = [kind |-> call.kind, id |-> call.a.id, err |-> err]

\* ------------------------------------------------------ the environment
Tick ==
    /\ clock < MaxTime
    /\ clock' = clock + 1
    /\ returned' = NoReturn /\ UNCHANGED <<store, taskSeq, life, calls>>

\* ------------------------------------------------- the transaction runner
\* db().Run: an aborted attempt is retried, buildTxn being called again with the
\* next attempt number, until the attempt budget is used up.
Retry(call) ==
    IF call.attempt + 1 >= nrRetries
    THEN Return(call, "ErrExcessiveContention")
    ELSE /\ Step(call, [call EXCEPT !.pc = "build", !.attempt = @ + 1])
         /\ returned' = NoReturn

\* ------------------------------------------------------- EnqueueAction
\* The receiver's life cycle, which EnqueueAction only reads.
KillReceiver(r) ==
    /\ life[r] # "dead"
    /\ life' = [life EXCEPT ![r] = IF @ = "alive" THEN "dying" ELSE "dead"]
    /\ returned' = NoReturn /\ UNCHANGED <<store, taskSeq, clock, calls>>

\* isNotDead / notDeadDoc
isNotDead(r) == life[r] # "dead"

\* Tags that name no action receiver, next to those that do.
ReceiverTags == Receivers \cup {"user-admin"}

\* tagToCollectionAndId: the tag resolves to the document of a receiver.
tagToCollectionAndId(receiver) == receiver \in Receivers

\* An EnqueueAction that resolves the receiver without looking at the name.
EnqueuePrecheck_NoName(receiver, actionName) ==
    IF ~tagToCollectionAndId(receiver) THEN "tag not valid" ELSE "none"

\* The checks of EnqueueAction before newActionDoc, in their order: the name,
\* then the resolution of the receiver.
EnqueuePrecheck(receiver, actionName) ==
    IF actionName = "" THEN "action name required"
    ELSE IF ~tagToCollectionAndId(receiver) THEN "tag not valid"
    ELSE "none"

\* EnqueueAction up to db().Run and buildTxn(0): the name check, the resolution
\* of the receiver, newActionDoc (which takes the next "task" sequence value)
\* and the liveness check.
EnqueueStart(operationID, receiver, actionName) ==
    LET a == [id |-> taskSeq + 1, receiver |-> receiver, operation |-> operationID,
              status |-> ActionPending, logs |-> 0]
        call == [NewCall EXCEPT !.kind = "enqueue", !.a = a, !.time = clock,
                                !.name = actionName]
        err == EnqueuePrecheck(receiver, actionName)
    IN /\ Free
       /\ IF err # "none"
          THEN /\ returned' = [kind |-> "enqueue", id |-> 0, err |-> err]
               /\ UNCHANGED <<taskSeq, calls>>
          ELSE /\ taskSeq < MaxSeq
               /\ taskSeq' = taskSeq + 1
               /\ IF isNotDead(receiver)
                  THEN Start(call) /\ returned' = NoReturn
                  ELSE /\ returned' = [kind |-> "enqueue", id |-> a.id, err |-> "ErrDead"]
                       /\ UNCHANGED calls
       /\ UNCHANGED <<store, life, clock>>

\* The ops of EnqueueAction without the assertion on the operation.
EnqueueAsserts_NoOperation(a) ==
    /\ isNotDead(a.receiver)
    /\ a.id \notin DOMAIN actionsC
    /\ notificationKey(a.receiver, a.id) \notin actionNotificationsC

\* The ops of EnqueueAction without the assertions that the action and its
\* notification are missing.
EnqueueAsserts_NoDocMissing(a) ==
    /\ isNotDead(a.receiver)
    /\ a.operation \in DOMAIN operationsC

\* The assertions of the four ops of EnqueueAction: notDeadDoc on the receiver,
\* DocExists on the operation, DocMissing on the action and its notification.
EnqueueAsserts(a) ==
    /\ isNotDead(a.receiver)
    /\ a.operation \in DOMAIN operationsC
    /\ a.id \notin DOMAIN actionsC
    /\ notificationKey(a.receiver, a.id) \notin actionNotificationsC

\* The four ops of EnqueueAction, run as one transaction.
EnqueueRun(call) ==
    LET a == call.a
        key == notificationKey(a.receiver, a.id)
        asserts == EnqueueAsserts(a)
    IN /\ call \in InFlight
       /\ call.pc = "txn" /\ call.kind = "enqueue"
       /\ IF asserts
          THEN /\ actionsC' = actionsC @@
                      (a.id :> newActionDoc(a.operation, a.receiver, call.name, call.time))
               /\ actionNotificationsC' = actionNotificationsC \cup {key}
               /\ Return(call, "ok")
          ELSE /\ Retry(call)
               /\ UNCHANGED <<actionsC, actionNotificationsC>>
       /\ UNCHANGED <<operationsC, taskSeq, life, clock>>

\* A buildTxn of EnqueueAction that hands out its ops again on a later attempt.
EnqueueBuild_Resubmit(call) ==
    /\ call \in InFlight
    /\ call.pc = "build" /\ call.kind = "enqueue"
    /\ Step(call, [call EXCEPT !.pc = "txn"])
    /\ returned' = NoReturn /\ UNCHANGED <<store, taskSeq, life, clock>>

\* buildTxn(attempt) of EnqueueAction for attempt > 0: always an error.
EnqueueBuild(call) ==
    LET err == IF ~isNotDead(call.a.receiver) THEN "ErrDead"
               ELSE IF ~Operation(call.a.operation).found THEN "operation not found"
               ELSE "unexpected attempt number"
    IN /\ call \in InFlight
       /\ call.pc = "build" /\ call.kind = "enqueue"
       /\ Return(call, err)
       /\ UNCHANGED <<store, taskSeq, life, clock>>

\* --------------------------------------------------------------- Begin
\* A Begin that never touches the operation.
BeginOperationOp_None(op) == NoOp

\* updateOperationOp of Begin, from the operation as looked up: the operation
\* is marked Running if it is still Pending.
BeginOperationOp(op) ==
    IF op.found /\ op.status = ActionPending
    THEN [NoOp EXCEPT !.update = "running"]
    ELSE NoOp

\* Begin up to db().Run and buildTxn(0): the operation is looked up and the
\* clock read once.
BeginStart(id) ==
    LET parentOperation == Operation(actionsC[id].operation)
    IN /\ Free
       /\ id \in DOMAIN actionsC
       /\ Start([NewCall EXCEPT !.kind = "begin", !.a = Identity(id),
                                !.parent = parentOperation.found,
                                !.op = BeginOperationOp(parentOperation),
                                !.time = clock])
       /\ returned' = NoReturn /\ UNCHANGED <<store, taskSeq, life, clock>>

\* Begin without its assertion: any document is taken to be Pending.
BeginAssert_Unchecked(doc) == TRUE

\* The assertion of Begin on the action and on the operation.
BeginAssert(doc) == doc.status = ActionPending

\* A Begin that sets the status but not the Started stamp.
BeginUpdate_NoStamp(doc, startedTime) == [doc EXCEPT !.status = ActionRunning]

BeginUpdate_Completed(doc, startedTime) ==
    [doc EXCEPT !.status = ActionRunning, !.started = startedTime,
                !.completed = startedTime]

\* The $set of Begin on the action and on the operation.
BeginUpdate(doc, startedTime) ==
    [doc EXCEPT !.status = ActionRunning, !.started = startedTime]

BeginRun(call) ==
    LET id == call.a.id
        opid == call.a.operation
        withOp == call.op.update = "running"
        asserts == /\ id \in DOMAIN actionsC
                   /\ BeginAssert(actionsC[id])
                   /\ withOp => /\ opid \in DOMAIN operationsC
                                /\ BeginAssert(operationsC[opid])
    IN /\ call \in InFlight
       /\ call.pc = "txn" /\ call.kind = "begin"
       /\ IF asserts
          THEN /\ actionsC' = [actionsC EXCEPT ![id] = BeginUpdate(@, call.time)]
               /\ operationsC' = IF withOp
                                 THEN [operationsC EXCEPT ![opid] = BeginUpdate(@, call.time)]
                                 ELSE operationsC
               /\ Return(call, "ok")
          ELSE /\ Retry(call)
               /\ UNCHANGED <<actionsC, operationsC>>
       /\ UNCHANGED <<actionNotificationsC, taskSeq, life, clock>>

\* buildTxn(attempt) of Begin for attempt > 0: the operation is refreshed; an
\* operation no longer found gets no op.
BeginBuild(call) ==
    LET op == IF call.parent THEN BeginOperationOp(Operation(call.a.operation)) ELSE NoOp
    IN /\ call \in InFlight
       /\ call.pc = "build" /\ call.kind = "begin"
       /\ Step(call, [call EXCEPT !.pc = "txn", !.op = op])
       /\ returned' = NoReturn /\ UNCHANGED <<store, taskSeq, life, clock>>

\* -------------------------------------------------- Finish (removeAndLog)
\* What a caller may pass as ActionResults: an end state, with its output.
ActionResults ==
    {[Status |-> s, Results |-> "results of " \o s, Message |-> "message of " \o s] :
        s \in CompletedStatuses}

\* numComplete: the tasks of the snapshot that are neither Pending nor Running.
numComplete(tasks) ==
    Cardinality({i \in DOMAIN tasks : tasks[i] # ActionPending /\ tasks[i] # ActionRunning})

\* A Finish that never takes the last-task branch.
IsLastTask_Never(tasks) == FALSE

\* "numComplete == len(tasks)-1": this action is the last one outstanding.
IsLastTask(tasks) == numComplete(tasks) = Len(tasks) - 1

\* statusStats: the final status and every status of the snapshot.
statusStats(finalStatus, tasks) == {finalStatus} \cup Range(tasks)

\* The first status of statusCompletedOrder that statusStats contains.
finalOperationStatus(finalStatus, tasks) ==
    LET hits == {i \in DOMAIN statusCompletedOrder :
                    statusCompletedOrder[i] \in statusStats(finalStatus, tasks)}
    IN IF hits = {} THEN finalStatus
       ELSE statusCompletedOrder[CHOOSE i \in hits : \A j \in hits : i <= j]

\* updateOperationOp of removeAndLog, from the operation as looked up.
FinishOperationOp(op, finalStatus) ==
    IF ~op.found THEN NoOp
    ELSE IF IsLastTask(op.tasks)
         THEN [update |-> "complete", assert |-> 0,
               status |-> finalOperationStatus(finalStatus, op.tasks),
               count |-> numComplete(op.tasks) + 1]
         ELSE [update |-> "count", assert |-> op.count, status |-> "",
               count |-> numComplete(op.tasks) + 1]

\* Finish up to db().Run and buildTxn(0): the operation is looked up and the
\* clock read once.
FinishStart(id, results) ==
    LET parentOperation == Operation(actionsC[id].operation)
    IN /\ Free
       /\ id \in DOMAIN actionsC
       /\ Start([NewCall EXCEPT !.kind = "finish", !.a = Identity(id),
                                !.parent = parentOperation.found,
                                !.op = FinishOperationOp(parentOperation, results.Status),
                                !.time = clock, !.results = results])
       /\ returned' = NoReturn /\ UNCHANGED <<store, taskSeq, life, clock>>

\* A Finish without its assertion on the prior status.
assertNotComplete_Unchecked(doc) == TRUE

\* assertNotComplete
assertNotComplete(doc) == doc.status \notin CompletedStatuses

\* updateOperationOp without its assertion on the stored operation document.
FinishOperationAssert_Unchecked(op, doc) == TRUE

\* The assertion of updateOperationOp on the stored operation document.
FinishOperationAssert(op, doc) ==
    IF op.update = "complete" THEN assertNotComplete(doc)
    ELSE doc.count = op.assert

\* The $set of updateOperationOp.
FinishOperationUpdate(op, doc, completedTime) ==
    IF op.update = "complete"
    THEN [doc EXCEPT !.status = op.status, !.completed = completedTime, !.count = op.count]
    ELSE [doc EXCEPT !.count = op.count]

\* A Finish that leaves the notification in place.
removeNotification_Kept(key) == actionNotificationsC

\* The op on actionnotifications: Remove, which a missing document satisfies.
removeNotification(key) == actionNotificationsC \ {key}

\* The $set of the action op.
FinishActionUpdate(doc, results, completedTime) ==
    [doc EXCEPT !.status = results.Status, !.message = results.Message,
                !.results = results.Results, !.completed = completedTime]

FinishRun(call) ==
    LET id == call.a.id
        opid == call.a.operation
        withOp == call.op.update # "none"
        asserts == /\ id \in DOMAIN actionsC
                   /\ assertNotComplete(actionsC[id])
                   /\ withOp => /\ opid \in DOMAIN operationsC
                                /\ FinishOperationAssert(call.op, operationsC[opid])
    IN /\ call \in InFlight
       /\ call.pc = "txn" /\ call.kind = "finish"
       /\ IF asserts
          THEN /\ actionsC' = [actionsC EXCEPT ![id] =
                                  FinishActionUpdate(@, call.results, call.time)]
               /\ actionNotificationsC' =
                      removeNotification(notificationKey(call.a.receiver, id))
               /\ operationsC' = IF withOp
                                 THEN [operationsC EXCEPT ![opid] =
                                          FinishOperationUpdate(call.op, @, call.time)]
                                 ELSE operationsC
               /\ Return(call, "ok")
          ELSE /\ Retry(call)
               /\ UNCHANGED <<actionsC, actionNotificationsC, operationsC>>
       /\ UNCHANGED <<taskSeq, life, clock>>

\* buildTxn(attempt) of removeAndLog for attempt > 0: the operation is
\* refreshed; a not-found error is ignored and the op is built from the
\* operation as last read.
FinishBuild(call) ==
    LET fresh == Operation(call.a.operation)
        op == IF call.parent /\ fresh.found
              THEN FinishOperationOp(fresh, call.results.Status)
              ELSE call.op
    IN /\ call \in InFlight
       /\ call.pc = "build" /\ call.kind = "finish"
       /\ Step(call, [call EXCEPT !.pc = "txn", !.op = op])
       /\ returned' = NoReturn /\ UNCHANGED <<store, taskSeq, life, clock>>

\* ----------------------------------------------------------------- Log
\* The guard of Log on the caller's own copy of the log.
LogIsFull(a) == a.logs > MaxLogMessages

\* The status check of buildTxn on the action in hand.
LogStatusOk(a) == a.status = ActionRunning

\* Log, through the action a, up to db().Run and buildTxn(0).
LogStart(a) ==
    /\ Free
    /\ LogIsFull(a) \/ actionsC[a.id].logs + 1 \in LogLengths
    /\ IF LogIsFull(a)
       THEN returned' = [kind |-> "log", id |-> a.id, err |-> "ok"] /\ UNCHANGED calls
       ELSE IF ~LogStatusOk(a)
            THEN returned' = [kind |-> "log", id |-> a.id, err |-> "cannot log message"]
                 /\ UNCHANGED calls
            ELSE Start([NewCall EXCEPT !.kind = "log", !.a = a]) /\ returned' = NoReturn
    /\ UNCHANGED <<store, taskSeq, life, clock>>

\* A Log whose op carries no assertion.
LogAssert_Unchecked(doc) == TRUE

\* The assertion of the op of Log on the stored action.
LogAssert(doc) == doc.status = ActionRunning

LogRun(call) ==
    LET id == call.a.id
        asserts == id \in DOMAIN actionsC /\ LogAssert(actionsC[id])
    IN /\ call \in InFlight
       /\ call.pc = "txn" /\ call.kind = "log"
       /\ IF asserts
          THEN /\ actionsC' = [actionsC EXCEPT ![id].logs = @ + 1]
               /\ Return(call, "ok")
          ELSE /\ Retry(call)
               /\ UNCHANGED actionsC
       /\ UNCHANGED <<actionNotificationsC, operationsC, taskSeq, life, clock>>

\* buildTxn(attempt) of Log for attempt > 0: the action is fetched again.
LogBuild(call) ==
    LET a == newAction(call.a.id)
    IN /\ call \in InFlight
       /\ call.pc = "build" /\ call.kind = "log"
       /\ IF LogStatusOk(a)
          THEN Step(call, [call EXCEPT !.pc = "txn", !.a = a]) /\ returned' = NoReturn
          ELSE Return(call, "cannot log message")
       /\ UNCHANGED <<store, taskSeq, life, clock>>

\* ----------------------------------------------------------------- Next
\* The lifecycle: callers enqueue actions under an operation, begin them and
\* finish them, in any interleaving.
Next ==
    \/ \E o \in OperationIds, n \in ActionNames : EnqueueStart(o, "u0", n)
    \/ \E call \in InFlight : EnqueueRun(call)
    \/ \E call \in InFlight : EnqueueBuild(call)
    \/ \E id \in DOMAIN actionsC : BeginStart(id)
    \/ \E call \in InFlight : BeginRun(call)
    \/ \E call \in InFlight : BeginBuild(call)
    \/ \E id \in DOMAIN actionsC, results \in ActionResults : FinishStart(id, results)
    \/ \E call \in InFlight : FinishRun(call)
    \/ \E call \in InFlight : FinishBuild(call)

Spec == Init /\ [][Next]_vars

\* The lifecycle with Log, from a store that holds a Running action whose log
\* is about to reach its 1000th message.
InitLog ==
    /\ actionsC = (1 :> [newActionDoc("op1", "u0", "restart", 1) EXCEPT
                            !.status = ActionRunning, !.started = 1,
                            !.logs = MaxLogMessages - MaxLogCalls])
    /\ actionNotificationsC = {notificationKey("u0", 1)}
    /\ operationsC = [o \in {"op1"} |-> BeginUpdate(newOperationDoc, 1)]
    /\ taskSeq = 1
    /\ life = [r \in Receivers |-> "alive"]
    /\ clock = 1
    /\ calls = EmptyBag
    /\ returned = NoReturn

NextLog ==
    \/ \E r \in Receivers : EnqueueStart("op1", r, "restart")
    \/ \E call \in InFlight : EnqueueRun(call)
    \/ \E id \in DOMAIN actionsC : BeginStart(id)
    \/ \E call \in InFlight : BeginRun(call)
    \/ \E call \in InFlight : BeginBuild(call)
    \/ \E id \in DOMAIN actionsC, results \in ActionResults :
          results.Status # ActionCancelled /\ FinishStart(id, results)
    \/ \E call \in InFlight : FinishRun(call)
    \/ \E call \in InFlight : FinishBuild(call)
    \/ \E id \in DOMAIN actionsC : \E a \in Handles(id) : LogStart(a)
    \/ \E call \in InFlight : LogRun(call)
    \/ \E call \in InFlight : LogBuild(call)

SpecLog == InitLog /\ [][NextLog]_vars

\* The race of the callers that finish the two children of one operation: each
\* child, Pending or Running, is finished by one call, and the calls interleave.
InitRace ==
    \E s1, s2 \in {ActionPending, ActionRunning} : \E r1, r2 \in Receivers :
        LET doc(r, s) == IF s = ActionRunning
                         THEN BeginUpdate(newActionDoc("op1", r, "restart", 1), 1)
                         ELSE newActionDoc("op1", r, "restart", 1)
        IN /\ actionsC = <<doc(r1, s1), doc(r2, s2)>>
           /\ actionNotificationsC = {notificationKey(r1, 1), notificationKey(r2, 2)}
           /\ operationsC = [o \in {"op1"} |->
                                IF ActionRunning \in {s1, s2}
                                THEN BeginUpdate(newOperationDoc, 1)
                                ELSE newOperationDoc]
           /\ taskSeq = 2
           /\ life = [r \in Receivers |-> "alive"]
           /\ clock = 1
           /\ calls = EmptyBag
           /\ returned = NoReturn

NextRace ==
    \/ \E id \in DOMAIN actionsC, results \in ActionResults :
          /\ actionsC[id].status \notin CompletedStatuses
          /\ \A call \in InFlight : call.a.id # id
          /\ FinishStart(id, results)
    \/ \E call \in InFlight : FinishRun(call)
    \/ \E call \in InFlight : FinishBuild(call)
    \/ Tick

SpecRace == InitRace /\ [][NextRace]_vars

\* The life of a single action under a fresh operation, with the clock
\* running: one EnqueueAction, then Begin and Finish calls in any interleaving.
NextSingle ==
    \/ taskSeq = 0 /\ EnqueueStart("op1", "u0", "restart")
    \/ \E call \in InFlight : EnqueueRun(call)
    \/ \E id \in DOMAIN actionsC : BeginStart(id)
    \/ \E call \in InFlight : BeginRun(call)
    \/ \E call \in InFlight : BeginBuild(call)
    \/ \E id \in DOMAIN actionsC, results \in ActionResults : FinishStart(id, results)
    \/ \E call \in InFlight : FinishRun(call)
    \/ \E call \in InFlight : FinishBuild(call)
    \/ Tick

SpecSingle == Init /\ [][NextSingle]_vars

\* The life of a single action when the callers of Finish pass any status as
\* the final one.
AnyActionResults ==
    {[Status |-> s, Results |-> "results of " \o s, Message |-> "message of " \o s] :
        s \in ActionStatus}

NextAnyStatus ==
    \/ taskSeq = 0 /\ EnqueueStart("op1", "u0", "restart")
    \/ \E call \in InFlight : EnqueueRun(call)
    \/ \E id \in DOMAIN actionsC : BeginStart(id)
    \/ \E call \in InFlight : BeginRun(call)
    \/ \E call \in InFlight : BeginBuild(call)
    \/ \E id \in DOMAIN actionsC, results \in AnyActionResults : FinishStart(id, results)
    \/ \E call \in InFlight : FinishRun(call)
    \/ \E call \in InFlight : FinishBuild(call)

SpecAnyStatus == Init /\ [][NextAnyStatus]_vars

\* EnqueueAction against receivers that go from alive to dying to dead, under
\* an operation that exists and one that does not.
NextLife ==
    \/ \E o \in OperationIds, r \in Receivers : EnqueueStart(o, r, "restart")
    \/ \E call \in InFlight : EnqueueRun(call)
    \/ \E call \in InFlight : EnqueueBuild(call)
    \/ \E r \in Receivers : KillReceiver(r)

SpecLife == Init /\ [][NextLife]_vars

\* EnqueueAction with any name and any tag, while receivers die.
NextName ==
    \/ \E o \in OperationIds, r \in ReceiverTags, n \in ActionNames : EnqueueStart(o, r, n)
    \/ \E call \in InFlight : EnqueueRun(call)
    \/ \E call \in InFlight : EnqueueBuild(call)
    \/ \E r \in Receivers : KillReceiver(r)

SpecName == Init /\ [][NextName]_vars

\* ------------------------------------------------------ operations created
\* EnqueueOperation: a fresh operation document is inserted.
createOperation(o) ==
    /\ o \notin DOMAIN operationsC
    /\ operationsC' = operationsC @@ (o :> newOperationDoc)
    /\ returned' = NoReturn
    /\ UNCHANGED <<actionsC, actionNotificationsC, taskSeq, life, clock, calls>>

\* EnqueueAction while receivers die and operations come into being.
NextSubmit ==
    \/ \E o \in OperationIds, r \in Receivers : EnqueueStart(o, r, "restart")
    \/ \E call \in InFlight : EnqueueRun(call)
    \/ \E call \in InFlight : EnqueueBuild(call)
    \/ \E r \in Receivers : KillReceiver(r)
    \/ \E o \in OperationIds : createOperation(o)

SpecSubmit == Init /\ [][NextSubmit]_vars

\* ------------------------------------------------------ operations removed
\* The pruner's deletion of one operation document: an operation that has
\* completed is removed from the operations collection; its children are
\* deleted by a later step of the pruner.
removeOperation(o) ==
    /\ o \in DOMAIN operationsC
    /\ operationsC[o].completed # 0
    /\ operationsC' = [p \in DOMAIN operationsC \ {o} |-> operationsC[p]]
    /\ returned' = NoReturn
    /\ UNCHANGED <<actionsC, actionNotificationsC, taskSeq, life, clock, calls>>

\* One caller at a time enqueues, begins and finishes the children of an
\* operation, while the pruner removes the operation once it has completed.
NextOrphan ==
    \/ calls = EmptyBag /\ EnqueueStart("op1", "u0", "restart")
    \/ \E call \in InFlight : EnqueueRun(call)
    \/ \E call \in InFlight : EnqueueBuild(call)
    \/ \E id \in DOMAIN actionsC : calls = EmptyBag /\ BeginStart(id)
    \/ \E call \in InFlight : BeginRun(call)
    \/ \E call \in InFlight : BeginBuild(call)
    \/ \E id \in DOMAIN actionsC, results \in ActionResults :
          calls = EmptyBag /\ FinishStart(id, results)
    \/ \E call \in InFlight : FinishRun(call)
    \/ \E call \in InFlight : FinishBuild(call)
    \/ \E o \in DOMAIN operationsC : removeOperation(o)

SpecOrphan == Init /\ [][NextOrphan]_vars

\* One caller: every call runs from its start to its return with no other
\* call in flight.
NextSolo ==
    \/ calls = EmptyBag /\ EnqueueStart("op1", "u0", "restart")
    \/ \E call \in InFlight : EnqueueRun(call)
    \/ \E id \in DOMAIN actionsC : calls = EmptyBag /\ BeginStart(id)
    \/ \E call \in InFlight : BeginRun(call)
    \/ \E call \in InFlight : BeginBuild(call)
    \/ \E id \in DOMAIN actionsC, results \in ActionResults :
          calls = EmptyBag /\ FinishStart(id, results)
    \/ \E call \in InFlight : FinishRun(call)
    \/ \E call \in InFlight : FinishBuild(call)

SpecSolo == Init /\ [][NextSolo]_vars

\* An operation with one child more than the runner has attempts, all
\* Running; each child is finished by one call, the calls overlapping.
CrowdSize == nrRetries + 1

InitCrowd ==
    /\ actionsC = [i \in 1..CrowdSize |->
                      BeginUpdate(newActionDoc("op1", "u0", "restart", 1), 1)]
    /\ actionNotificationsC = {notificationKey("u0", i) : i \in 1..CrowdSize}
    /\ operationsC = [o \in {"op1"} |-> BeginUpdate(newOperationDoc, 1)]
    /\ taskSeq = CrowdSize
    /\ life = [r \in Receivers |-> "alive"]
    /\ clock = 1
    /\ calls = EmptyBag
    /\ returned = NoReturn

NextCrowd ==
    \/ \E id \in DOMAIN actionsC, results \in ActionResults :
          /\ results.Status = ActionCompleted
          /\ actionsC[id].status \notin CompletedStatuses
          /\ \A call \in InFlight : call.a.id # id
          /\ FinishStart(id, results)
    \/ \E call \in InFlight : FinishRun(call)
    \/ \E call \in InFlight : FinishBuild(call)

SpecCrowd == InitCrowd /\ [][NextCrowd]_vars

\* The two children of one operation are begun and finished while the clock
\* runs: the Begin calls on the two overlap, a Finish runs on its own.
NextSiblings ==
    \/ \E id \in DOMAIN actionsC :
          /\ \A call \in InFlight : call.a.id # id
          /\ BeginStart(id)
    \/ \E call \in InFlight : BeginRun(call)
    \/ \E call \in InFlight : BeginBuild(call)
    \/ \E id \in DOMAIN actionsC, results \in ActionResults :
          /\ calls = EmptyBag
          /\ FinishStart(id, results)
    \/ \E call \in InFlight : FinishRun(call)
    \/ \E call \in InFlight : FinishBuild(call)
    \/ Tick

SpecSiblings == InitRace /\ [][NextSiblings]_vars

\* ------------------------------------------------------ queries by status
\* A selector (bson.D) is a sequence of elements: a field with the value it
\* must have, or "$or" with a sequence of selectors of which one must match.
RECURSIVE Matches(_, _)
Matches(doc, sel) ==
    \A k \in DOMAIN sel :
        IF sel[k].key = "$or"
        THEN \E j \in DOMAIN sel[k].value : Matches(doc, sel[k].value[j])
        ELSE doc[sel[k].key] = sel[k].value

\* The ids of the actions found for the receiver under the status condition.
matchingActionsByReceiverAndStatus(tagId, statusCondition) ==
    LET sel == <<[key |-> "receiver", value |-> tagId]>> \o statusCondition
    IN {id \in DOMAIN actionsC : Matches(actionsC[id], sel)}

matchingActionsPending(tagId) ==
    matchingActionsByReceiverAndStatus(tagId,
        <<[key |-> "status", value |-> ActionPending]>>)

matchingActionsRunning(tagId) ==
    matchingActionsByReceiverAndStatus(tagId,
        <<[key |-> "status", value |-> ActionRunning]>>)

\* A condition of the completed actions that leaves the failed ones out.
completedCondition_NoFailed ==
    <<[key |-> "$or", value |->
          << <<[key |-> "status", value |-> ActionCompleted]>>,
             <<[key |-> "status", value |-> ActionCancelled]>> >>]>>

completedCondition ==
    <<[key |-> "$or", value |->
          << <<[key |-> "status", value |-> ActionCompleted]>>,
             <<[key |-> "status", value |-> ActionCancelled]>>,
             <<[key |-> "status", value |-> ActionFailed]>> >>]>>

matchingActionsCompleted(tagId) ==
    matchingActionsByReceiverAndStatus(tagId, completedCondition)

StatusQueries == {"pending", "running", "completed"}

matchingActionsOf(query, tagId) ==
    CASE query = "pending" -> matchingActionsPending(tagId)
      [] query = "running" -> matchingActionsRunning(tagId)
      [] query = "completed" -> matchingActionsCompleted(tagId)

\* One of the three queries is called for a receiver.
MatchStart(query, tagId) ==
    /\ Free
    /\ Start([pc |-> "query", kind |-> "match", query |-> query, receiver |-> tagId])
    /\ returned' = NoReturn /\ UNCHANGED <<store, taskSeq, life, clock>>

\* The query and the loop over its results.
MatchRun(call) ==
    /\ call \in InFlight
    /\ call.kind = "match"
    /\ calls' = calls (-) SetToBag({call})
    /\ returned' = [kind |-> "match", id |-> call.receiver, err |-> "none",
                    query |-> call.query,
                    actions |-> matchingActionsOf(call.query, call.receiver)]
    /\ UNCHANGED <<store, taskSeq, life, clock>>

\* The two actions of an operation, of one receiver or of two, are begun and
\* finished and the queries are called, one call at a time.
NextMatch ==
    \/ \E id \in DOMAIN actionsC :
          /\ calls = EmptyBag /\ actionsC[id].status = ActionPending
          /\ BeginStart(id)
    \/ \E call \in InFlight : BeginRun(call)
    \/ \E id \in DOMAIN actionsC, results \in ActionResults :
          /\ calls = EmptyBag /\ actionsC[id].status \notin CompletedStatuses
          /\ FinishStart(id, results)
    \/ \E call \in InFlight : FinishRun(call)
    \/ \E query \in StatusQueries, tagId \in Receivers :
          calls = EmptyBag /\ MatchStart(query, tagId)
    \/ \E call \in InFlight : MatchRun(call)

SpecMatch == InitRace /\ [][NextMatch]_vars

\* ------------------------------------------------------ action id scheme
\* names.UnitTagKind and the kinds of receiver tag.
UnitTagKind == "unit"
TagKinds == {UnitTagKind, "machine"}

\* version.Number, and the agent versions the model draws from: releases and
\* tagged pre-releases around 2.6.999.
VersionParts == {998, 999, 1000}
Versions ==
    [Major : {1, 2, 3}, Minor : {6, 7}, Tag : {"", "beta"}, Patch : VersionParts, Build : {0}]

MinVersionSupportNewActionID ==
    [Major |-> 2, Minor |-> 6, Tag |-> "", Patch |-> 999, Build |-> 0]

\* version.Number.Compare: by Major, Minor, Tag (a release is above every
\* tagged version; two tags compare as strings, "alpha" below "beta"), Patch,
\* Build.
Compare(v, w) ==
    IF v = w THEN 0
    ELSE LET less ==
                 IF v.Major # w.Major THEN v.Major < w.Major
                 ELSE IF v.Minor # w.Minor THEN v.Minor < w.Minor
                 ELSE IF v.Tag # w.Tag
                      THEN IF v.Tag = "" THEN FALSE
                           ELSE IF w.Tag = "" THEN TRUE
                           ELSE v.Tag = "alpha"
                 ELSE IF v.Patch # w.Patch THEN v.Patch < w.Patch
                 ELSE v.Build < w.Build
         IN IF less THEN 0 - 1 ELSE 1

\* The version gate off by one: 2.6.999 itself is not supported.
IsNewActionIDSupported_Strict(ver) == Compare(ver, MinVersionSupportNewActionID) > 0

IsNewActionIDSupported(ver) == Compare(ver, MinVersionSupportNewActionID) >= 0

\* NewUUID: some identifier in canonical form.
UUIDs == {"6e1f1a5c-0c1d-4f9e-8f36-1b1c0d2e3f40", "0b9c2d7e-5a4f-4e21-9d3a-7c6b5a493827"}

\* strconv.Itoa
Itoa(n) == ToString(n)

\* EnqueueAction up to newActionDoc: the receiver tag and the agent version
\* are at hand.
NewActionDocStart(kind, ver) ==
    /\ Free
    /\ Start([kind |-> "newActionDoc", tag |-> kind, ver |-> ver])
    /\ returned' = NoReturn /\ UNCHANGED <<store, taskSeq, life, clock>>

\* newActionDoc's choice of actionId: the next value of the "task" sequence,
\* or a new UUID.
NewActionDocId(call) ==
    /\ call \in InFlight
    /\ call.kind = "newActionDoc"
    /\ calls' = calls (-) SetToBag({call})
    /\ IF call.tag = UnitTagKind /\ IsNewActionIDSupported(call.ver)
       THEN /\ taskSeq < MaxSeq
            /\ taskSeq' = taskSeq + 1
            /\ returned' = [kind |-> "newActionDoc", id |-> Itoa(taskSeq + 1), err |-> "none"]
       ELSE /\ \E actionUUID \in UUIDs :
                  returned' = [kind |-> "newActionDoc", id |-> actionUUID, err |-> "none"]
            /\ UNCHANGED taskSeq
    /\ UNCHANGED <<store, life, clock>>

NextIds ==
    \/ \E kind \in TagKinds, ver \in Versions : NewActionDocStart(kind, ver)
    \/ \E call \in InFlight : NewActionDocId(call)

SpecIds == Init /\ [][NextIds]_vars

\* ------------------------------------------------------ FindActionTagsById
\* Ids and queried values are sequences of characters. The queried value is
\* any string: digits, hex letters, "-" and, of the characters that a regular
\* expression reads as operators, ".".
Digits == {"1", "2"}
HexDigits == Digits \cup {"a"}
ValueAlphabet == HexDigits \cup {"-", "."}
Values == UNION {[1..n -> ValueAlphabet] : n \in 0..MaxIdLen}

\* st.docID and st.localID: the model UUID and ":" before the local id.
ModelUUID == <<"e", "0">>
docID(id) == ModelUUID \o <<":">> \o id
localID(id) == SubSeq(id, Len(ModelUUID) + 2, Len(id))

\* names.IsValidAction: a decimal number or a UUID in canonical form, here
\* two hex digits, "-", one hex digit.
IsValidAction(id) ==
    \/ id # <<>> /\ \A i \in DOMAIN id : id[i] \in Digits
    \/ /\ Len(id) = 4 /\ id[3] = "-"
       /\ \A i \in {1, 2, 4} : id[i] \in HexDigits

\* The local ids the actions collection may hold: numbers, UUIDs and an id of
\* neither form.
StoredIds == {<<"1">>, <<"2">>, <<"1", "2">>, <<"1", "a", "-", "2">>,
              <<"a", "1", "-", "1">>, <<"1", "x">>}

\* The agent versions of the model around the version gate.
FindVersions == {v \in Versions : v.Major = 2 /\ v.Minor = 6}

\* strings.ContainsAny
ContainsAny(s, chars) == \E i \in DOMAIN s : s[i] \in chars

\* The second argument of ContainsAny in FindActionTagsById: "-abcdef".
OldIdChars == {"-", "a", "b", "c", "d", "e", "f"}

\* {"$regex": "^" + pattern} against an _id: the pattern is read as a regular
\* expression anchored at the start, in which "." stands for any character and
\* every other character of the alphabet for itself.
RegexMatches(pattern, id) ==
    /\ Len(id) >= Len(pattern)
    /\ \A i \in DOMAIN pattern : pattern[i] = "." \/ pattern[i] = id[i]

\* The filter of FindActionTagsById.
FindFilter(idValue, ver) ==
    LET matchValue == docID(idValue)
        newIdsSupported == IsNewActionIDSupported(ver)
        maybeOldId == ContainsAny(idValue, OldIdChars)
    IN IF ~newIdsSupported \/ maybeOldId
       THEN [op |-> "$regex", value |-> matchValue]
       ELSE [op |-> "$eq", value |-> matchValue]

\* actions.Find(filter): the _ids of the documents that match.
Find(filter) ==
    {id \in DOMAIN actionsC :
        IF filter.op = "$regex" THEN RegexMatches(filter.value, id)
        ELSE id = filter.value}

\* The tags FindActionTagsById returns.
FindActionTagsById(idValue, ver) ==
    {localID(id) : id \in {d \in Find(FindFilter(idValue, ver)) : IsValidAction(localID(d))}}

\* The actions collection holds any of the stored ids.
InitFind ==
    /\ \E S \in SUBSET StoredIds :
          actionsC = [id \in {docID(i) : i \in S} |-> newActionDoc("op1", "u0", "restart", 1)]
    /\ actionNotificationsC = {}
    /\ operationsC = [o \in {"op1"} |-> newOperationDoc]
    /\ taskSeq = 0
    /\ life = [r \in Receivers |-> "alive"]
    /\ clock = 1
    /\ calls = EmptyBag
    /\ returned = NoReturn

\* FindActionTagsById up to the agent version being at hand.
FindStart(idValue, ver) ==
    /\ Free
    /\ Start([kind |-> "find", idValue |-> idValue, ver |-> ver])
    /\ returned' = NoReturn /\ UNCHANGED <<store, taskSeq, life, clock>>

\* The query and the loop over its results.
FindRun(call) ==
    /\ call \in InFlight
    /\ call.kind = "find"
    /\ calls' = calls (-) SetToBag({call})
    /\ returned' = [kind |-> "find", id |-> call.idValue, err |-> "none",
                    tags |-> FindActionTagsById(call.idValue, call.ver)]
    /\ UNCHANGED <<store, taskSeq, life, clock>>

\* One query at a time, of any value under any of the versions.
NextFind ==
    \/ \E idValue \in Values, ver \in FindVersions :
          calls = EmptyBag /\ FindStart(idValue, ver)
    \/ \E call \in InFlight : FindRun(call)

SpecFind == InitFind /\ [][NextFind]_vars

\* ------------------------------------------------------- PruneOperations
\* The steps of PruneOperations in the order of its statements.
nextPhase_CountsSkipped(pc) ==
    CASE pc = "orphans" -> "operations"
      [] pc = "countOperations" -> "countActions"
      [] pc = "countActions" -> "operations"
      [] OTHER -> "done"

nextPhase(pc) ==
    CASE pc = "orphans" -> "countOperations"
      [] pc = "countOperations" -> "countActions"
      [] pc = "countActions" -> "operations"
      [] OTHER -> "done"

\* The error PruneOperations returns when the step at pc fails.
phaseError(pc) ==
    CASE pc = "orphans" -> "pruneCollection error"
      [] pc = "countOperations" -> "retrieving operations collection count"
      [] pc = "countActions" -> "retrieving actions collection count"
      [] OTHER -> "pruneCollectionAndChildren error"

\* A document is old enough to be pruned: it has completed before the cutoff.
Expired(doc, cutoff) == doc.completed # 0 /\ doc.completed < cutoff

\* hasNoOperation
hasNoOperation(doc) == doc.operation = ""

\* f without the keys in D.
Without(f, D) == [k \in DOMAIN f \ D |-> f[k]]

\* PruneOperations is called: the prune of the orphaned actions is next.
PruneStart(cutoff) ==
    /\ Free
    /\ Start([NewCall EXCEPT !.kind = "prune", !.pc = "orphans", !.time = cutoff])
    /\ returned' = NoReturn /\ UNCHANGED <<store, taskSeq, life, clock>>

\* call goes on to its next step, or returns the error of the step at hand.
PruneGoesOn(call, ok) ==
    IF ok /\ nextPhase(call.pc) # "done"
    THEN Step(call, [call EXCEPT !.pc = nextPhase(call.pc)]) /\ returned' = NoReturn
    ELSE Return(call, IF ok THEN "ok" ELSE phaseError(call.pc))

\* pruneCollection on the actions without operation: the expired ones are
\* deleted; a failure comes after any part of the deletions.
PruneOrphans(call) ==
    LET expired == {i \in DOMAIN actionsC :
                       hasNoOperation(actionsC[i]) /\ Expired(actionsC[i], call.time)}
    IN /\ call \in InFlight
       /\ call.kind = "prune" /\ call.pc = "orphans"
       /\ \E ok \in BOOLEAN : \E D \in SUBSET expired :
             /\ ok => D = expired
             /\ actionsC' = Without(actionsC, D)
             /\ PruneGoesOn(call, ok)
       /\ UNCHANGED <<actionNotificationsC, operationsC, taskSeq, life, clock>>

\* operationsColl.Count() and actionsColl.Count(): the count, or an error.
PruneCount(call) ==
    /\ call \in InFlight
    /\ call.kind = "prune" /\ call.pc \in {"countOperations", "countActions"}
    /\ \E ok \in BOOLEAN : PruneGoesOn(call, ok)
    /\ UNCHANGED <<store, taskSeq, life, clock>>

\* pruneCollectionAndChildren: the expired operations are deleted, each with
\* its child actions; a failure comes after any part of the deletions.
PruneOperationsAndChildren(call) ==
    LET expired == {o \in DOMAIN operationsC : Expired(operationsC[o], call.time)}
        children(D) == {i \in DOMAIN actionsC : actionsC[i].operation \in D}
    IN /\ call \in InFlight
       /\ call.kind = "prune" /\ call.pc = "operations"
       /\ \E ok \in BOOLEAN : \E D \in SUBSET expired : \E C \in SUBSET children(D) :
             /\ ok => D = expired /\ C = children(D)
             /\ operationsC' = Without(operationsC, D)
             /\ actionsC' = Without(actionsC, C)
             /\ PruneGoesOn(call, ok)
       /\ UNCHANGED <<actionNotificationsC, taskSeq, life, clock>>

\* A store with history: two actions without operation (one of them perhaps
\* still Pending), an operation that completed at time 1 with its child, and
\* an operation that is Running or has completed later.
InitPrune ==
    \E s1 \in {ActionPending, ActionCompleted}, s4 \in {ActionRunning, ActionFailed} :
        LET done(d, status, t) ==
                [BeginUpdate(d, 1) EXCEPT !.status = status, !.completed = t]
            orphan == newActionDoc("", "u0", "restart", 1)
            child(o) == newActionDoc(o, "u0", "restart", 1)
        IN /\ actionsC = << IF s1 = ActionPending THEN orphan
                                                  ELSE done(orphan, s1, 1),
                            done(orphan, ActionCompleted, MaxTime),
                            done(child("op1"), ActionCompleted, 1),
                            IF s4 = ActionRunning THEN BeginUpdate(child("op2"), 1)
                                                  ELSE done(child("op2"), s4, MaxTime) >>
           /\ actionNotificationsC =
                  {notificationKey("u0", i) : i \in IF s1 = ActionPending THEN {1} ELSE {}}
           /\ operationsC =
                  [o \in OperationIds |->
                      IF o = "op1"
                      THEN [done(newOperationDoc, ActionCompleted, 1) EXCEPT !.count = 1]
                      ELSE IF s4 = ActionRunning THEN BeginUpdate(newOperationDoc, 1)
                      ELSE [done(newOperationDoc, s4, MaxTime) EXCEPT !.count = 1]]
           /\ taskSeq = 4
           /\ life = [r \in Receivers |-> "alive"]
           /\ clock = MaxTime
           /\ calls = EmptyBag
           /\ returned = NoReturn

NextPrune ==
    \/ \E cutoff \in 1..(MaxTime + 1) : PruneStart(cutoff)
    \/ \E call \in InFlight : PruneOrphans(call)
    \/ \E call \in InFlight : PruneCount(call)
    \/ \E call \in InFlight : PruneOperationsAndChildren(call)

SpecPrune == InitPrune /\ [][NextPrune]_vars

\* ------------------------------------------------ EnqueueAction, any id scheme
\* The agent versions of the model at the calls of EnqueueAction: one that
\* supports the new ids and one that does not.
EnqueueVersions ==
    {MinVersionSupportNewActionID, [MinVersionSupportNewActionID EXCEPT !.Patch = 998]}

\* EnqueueAction up to db().Run and buildTxn(0) on a unit, under the agent
\* version at hand: newActionDoc takes the next "task" sequence value or a new
\* UUID as the id.
EnqueueStartAt(operationID, receiver, actionName, ver, actionUUID) ==
    LET newIds == IsNewActionIDSupported(ver)
        actionId == IF newIds THEN Itoa(taskSeq + 1) ELSE actionUUID
        a == [id |-> actionId, receiver |-> receiver, operation |-> operationID,
              status |-> ActionPending, logs |-> 0]
        call == [NewCall EXCEPT !.kind = "enqueue", !.a = a, !.time = clock,
                                !.name = actionName]
        err == EnqueuePrecheck(receiver, actionName)
    IN /\ Free
       /\ IF err # "none"
          THEN /\ returned' = [kind |-> "enqueue", id |-> "", err |-> err]
               /\ UNCHANGED <<taskSeq, calls>>
          ELSE /\ newIds => taskSeq < MaxSeq
               /\ taskSeq' = IF newIds THEN taskSeq + 1 ELSE taskSeq
               /\ IF isNotDead(receiver)
                  THEN Start(call) /\ returned' = NoReturn
                  ELSE /\ returned' = [kind |-> "enqueue", id |-> a.id, err |-> "ErrDead"]
                       /\ UNCHANGED calls
       /\ UNCHANGED <<store, life, clock>>

\* buildTxn(attempt) of EnqueueAction for attempt > 0, where m.Operation is
\* needed only for its error: the operation is found or it is not.
EnqueueBuildAt(call) ==
    LET err == IF ~isNotDead(call.a.receiver) THEN "ErrDead"
               ELSE IF call.a.operation \notin DOMAIN operationsC THEN "operation not found"
               ELSE "unexpected attempt number"
    IN /\ call \in InFlight
       /\ call.pc = "build" /\ call.kind = "enqueue"
       /\ Return(call, err)
       /\ UNCHANGED <<store, taskSeq, life, clock>>

\* EnqueueAction by up to NumCallers callers under either id scheme; NewUUID
\* may hand out an identifier a second time.
NextAnyId ==
    \/ \E receiver \in Receivers, ver \in EnqueueVersions, actionUUID \in UUIDs :
          EnqueueStartAt("op1", receiver, "restart", ver, actionUUID)
    \/ \E call \in InFlight : EnqueueRun(call)
    \/ \E call \in InFlight : EnqueueBuildAt(call)
    \/ Tick

SpecAnyId == Init /\ [][NextAnyId]_vars

\* ------------------------------------------------ upgrade-dashboard command
\* The versions and the hashes of Dashboard archives the model draws from.
GUIVersions == {"2.2.0", "2.3.0"}
GUIHashes == {"5d41402a", "7b52009b"}

\* What openArchive returns, as far as Run reads it.
OpenedArchives == [hash : GUIHashes, vers : GUIVersions]
NoArchive == [hash |-> "", vers |-> ""]

\* What the controller may report as its archives: each version at most once,
\* at most one of them current.
GUIArchiveVersions ==
    LET entries == [Version : GUIVersions, SHA256 : GUIHashes, Current : BOOLEAN]
        lists == {<<>>} \cup {<<e>> : e \in entries}
                        \cup {<<e, f>> : e \in entries, f \in entries}
    IN {l \in lists :
           /\ \A j, k \in DOMAIN l : l[j].Version = l[k].Version => j = k
           /\ \A j, k \in DOMAIN l : (l[j].Current /\ l[k].Current) => j = k}

\* existingVersionInfo after a successful clientGUIArchives: hash and current
\* of the first entry at the version, an empty hash when there is none.
RECURSIVE existingVersionInfoFrom(_, _, _)
existingVersionInfoFrom(versions, vers, k) ==
    IF k > Len(versions) THEN [hash |-> "", current |-> FALSE]
    ELSE IF versions[k].Version = vers
         THEN [hash |-> versions[k].SHA256, current |-> versions[k].Current]
         ELSE existingVersionInfoFrom(versions, vers, k + 1)

existingVersionInfo(versions, vers) == existingVersionInfoFrom(versions, vers, 1)

\* A command that uploads whatever the controller holds.
UploadRequired_Always(archive, existingHash) == TRUE

\* The test of Run for the upload of the release file.
UploadRequired(archive, existingHash) == archive.hash # existingHash

\* The command returns err; what it did stays readable in the returned record.
GUIReturn(call, err) ==
    /\ calls' = calls (-) SetToBag({call})
    /\ returned' = [kind |-> "upgrade-gui", id |-> 0, err |-> err, list |-> call.list,
                    archive |-> call.archive, versions |-> call.versions,
                    api |-> call.api]

\* Run is called, with --list or without.
upgradeGUIStart(list) ==
    /\ Free
    /\ Start([pc |-> IF list THEN "list" ELSE "open", kind |-> "upgrade-gui",
              list |-> list, archive |-> NoArchive, versions |-> <<>>,
              isCurrent |-> FALSE, api |-> <<>>])
    /\ returned' = NoReturn /\ UNCHANGED <<store, taskSeq, life, clock>>

\* Run with --list: the release versions are fetched and printed.
upgradeGUIList(call, ok) ==
    /\ call \in InFlight
    /\ call.kind = "upgrade-gui" /\ call.pc = "list"
    /\ GUIReturn(call, IF ok THEN "none"
                       ELSE "cannot list Juju Dashboard release versions")
    /\ UNCHANGED <<store, taskSeq, life, clock>>

\* Run from openArchive to the test of the hash: the archive is opened, the
\* API client is opened and the controller is asked for its archives; each of
\* the three may fail.
upgradeGUIOpen(call, archive, openOk, clientOk, versions, archivesOk) ==
    LET asked == [call EXCEPT !.archive = archive,
                              !.api = @ \o <<[call |-> "GUIArchives", ok |-> archivesOk]>>]
        info == existingVersionInfo(versions, archive.vers)
        known == [asked EXCEPT !.versions = versions, !.isCurrent = info.current]
    IN /\ call \in InFlight
       /\ call.kind = "upgrade-gui" /\ call.pc = "open"
       /\ IF ~openOk THEN GUIReturn(call, "cannot open archive")
          ELSE IF ~clientOk
               THEN GUIReturn([call EXCEPT !.archive = archive],
                              "cannot establish API connection")
          ELSE IF ~archivesOk
               THEN GUIReturn(asked, "cannot retrieve Dashboard versions from the controller")
          ELSE /\ Step(call, [known EXCEPT !.pc = IF UploadRequired(archive, info.hash)
                                                   THEN "upload" ELSE "select"])
               /\ returned' = NoReturn
       /\ UNCHANGED <<store, taskSeq, life, clock>>

\* The upload of the release file: the archive is stored in a temporary file
\* and uploaded; the controller answers whether the version is the current one.
upgradeGUIUpload(call, storeOk, uploadOk, current) ==
    LET uploaded == [call EXCEPT !.api = @ \o <<[call |-> "UploadGUIArchive",
                                                  ok |-> uploadOk, current |-> current]>>]
    IN /\ call \in InFlight
       /\ call.kind = "upgrade-gui" /\ call.pc = "upload"
       /\ IF ~storeOk THEN GUIReturn(call, "cannot retrieve Juju Dashboard archive")
          ELSE IF ~uploadOk THEN GUIReturn(uploaded, "cannot upload Juju Dashboard")
          ELSE /\ Step(call, [uploaded EXCEPT !.pc = "select", !.isCurrent = current])
               /\ returned' = NoReturn
       /\ UNCHANGED <<store, taskSeq, life, clock>>

\* The switch to the new version if it is not the current one.
upgradeGUISelect(call, selectOk) ==
    LET selected == [call EXCEPT !.api = @ \o <<[call |-> "SelectGUIVersion",
                                                  ok |-> selectOk]>>]
    IN /\ call \in InFlight
       /\ call.kind = "upgrade-gui" /\ call.pc = "select"
       /\ IF call.isCurrent THEN GUIReturn(call, "none")
          ELSE IF ~selectOk
               THEN GUIReturn(selected, "cannot switch to new Juju Dashboard version")
          ELSE GUIReturn(selected, "none")
       /\ UNCHANGED <<store, taskSeq, life, clock>>

\* One run of the command at a time, against any controller.
NextGUI ==
    \/ \E list \in BOOLEAN : calls = EmptyBag /\ upgradeGUIStart(list)
    \/ \E call \in InFlight, ok \in BOOLEAN : upgradeGUIList(call, ok)
    \/ \E call \in InFlight, archive \in OpenedArchives, openOk, clientOk, archivesOk \in BOOLEAN,
          versions \in GUIArchiveVersions :
          upgradeGUIOpen(call, archive, openOk, clientOk, versions, archivesOk)
    \/ \E call \in InFlight, storeOk, uploadOk, current \in BOOLEAN :
          upgradeGUIUpload(call, storeOk, uploadOk, current)
    \/ \E call \in InFlight, selectOk \in BOOLEAN : upgradeGUISelect(call, selectOk)

SpecGUI == Init /\ [][NextGUI]_vars

\* ------------------------------------------------------------ properties
Children(o) == {i \in DOMAIN actionsC : actionsC[i].operation = o}
Terminal(i) == actionsC[i].status \in CompletedStatuses
TerminalChildren(o) == {i \in Children(o) : Terminal(i)}
OperationTerminal(o) == operationsC[o].status \in CompletedStatuses

\* The first status of the precedence list among the children's statuses.
Precedence(o) ==
    LET S == {actionsC[i].status : i \in Children(o)}
        hits == {k \in DOMAIN statusCompletedOrder : statusCompletedOrder[k] \in S}
    IN statusCompletedOrder[CHOOSE k \in hits : \A j \in hits : k <= j]

\* The call taking this step: the one whose copies in the bag decrease.
Moves(call) == CopiesIn(call, calls') < CopiesIn(call, calls)

C2_Aggregation ==
    \A o \in DOMAIN operationsC :
        (Children(o) # {} /\ TerminalChildren(o) = Children(o)) =>
            /\ operationsC[o].count = Cardinality(Children(o))
            /\ operationsC[o].status = Precedence(o)

\* C3: an operation's complete-task-count is the number of its children whose
\* stored status is an end status.
C3_CountIsTerminalChildren ==
    \A o \in DOMAIN operationsC :
        operationsC[o].count = Cardinality(TerminalChildren(o))

\* C4: the operation's status becomes an end status, and its Completed stamp is
\* set, by one transaction only: a Finish that leaves every child of the
\* operation at an end status; nothing writes either of them afterwards.
C4_OneCompletion ==
    [][\A o \in DOMAIN operationsC :
          LET old == operationsC[o]
              new == operationsC'[o]
          IN /\ old.status \in CompletedStatuses =>
                    new.status = old.status /\ new.completed = old.completed
             /\ new.completed # old.completed =>
                    old.status \notin CompletedStatuses /\ new.status \in CompletedStatuses
             /\ (old.status \notin CompletedStatuses /\ new.status \in CompletedStatuses) =>
                    /\ new.completed # 0
                    /\ returned' = [kind |-> "finish", id |-> returned'.id, err |-> "ok"]
                    /\ \A i \in DOMAIN actionsC' :
                          actionsC'[i].operation = o =>
                              actionsC'[i].status \in CompletedStatuses]_vars

\* C5: when the two children of an operation are finished by two concurrent
\* calls, every Finish that returns returns success, and once both children
\* are at an end status the complete-task-count is 2 and the operation is at
\* an end status.
C5_ConcurrentFinish ==
    /\ returned.kind = "finish" => returned.err = "ok"
    /\ TerminalChildren("op1") = Children("op1") =>
           operationsC["op1"].count = 2 /\ OperationTerminal("op1")

\* The second of two racing calls has returned: both children are finished,
\* with different end statuses.
C5_Witness ==
    /\ returned.kind = "finish" /\ calls = EmptyBag
    /\ TerminalChildren("op1") = {1, 2}
    /\ actionsC[1].status # actionsC[2].status

\* C6: a Finish on an action whose stored status is already an end status
\* changes no document and does not return success.
C6_FinishTwice ==
    [][\A call \in InFlight :
          (/\ call.kind = "finish"
           /\ Terminal(call.a.id)
           /\ Moves(call)) =>
              /\ store' = store
              /\ returned'.err # "ok"]_vars

\* A Finish has returned an error on an action that is at an end status.
C6_Witness ==
    /\ returned.kind = "finish"
    /\ returned.err = "ErrExcessiveContention"
    /\ Terminal(returned.id)

C8_LogCap ==
    [][\A call \in InFlight :
          (/\ call.kind = "log"
           /\ call.a = newAction(call.a.id)
           /\ call.a.status = ActionRunning
           /\ call.a.logs = MaxLogMessages
           /\ Moves(call)
           /\ returned'.kind = "log") =>
              /\ returned'.err = "ok"
              /\ actionsC'[call.a.id].logs = MaxLogMessages]_vars

\* C9: an operation at an end status has only children at an end status.
C9_TerminalOperationChildren ==
    \A o \in DOMAIN operationsC :
        OperationTerminal(o) => TerminalChildren(o) = Children(o)

C12_BeginOperation ==
    [][(returned'.kind = "begin" /\ returned'.err = "ok") =>
          LET id == returned'.id
              o == actionsC[id].operation
          IN o \in DOMAIN operationsC =>
                /\ operationsC'[o].status # ActionPending
                /\ IF operationsC[o].status = ActionPending
                   THEN /\ operationsC'[o] =
                              [operationsC[o] EXCEPT !.status = ActionRunning,
                                                     !.started = actionsC'[id].started]
                        /\ actionsC[id].status = ActionPending
                        /\ actionsC'[id].status = ActionRunning
                   ELSE operationsC'[o] = operationsC[o]]_vars

\* A Begin has just succeeded on the second child of an operation to begin.
C12_Witness ==
    /\ returned.kind = "begin" /\ returned.err = "ok"
    /\ \E i \in Children(actionsC[returned.id].operation) :
          i # returned.id /\ actionsC[i].started # 0

\* C13: a step of a Begin commits only on an action whose stored status is
\* Pending, and leaves it Running, so no second Begin commits; a step of a
\* Begin on an action that is not Pending changes no document and does not
\* return success, and the call returns only with the error of the used-up
\* attempt budget.
C13_BeginOnce ==
    [][\A call \in InFlight :
          (call.kind = "begin" /\ Moves(call)) =>
              LET id == call.a.id
              IN IF actionsC[id].status = ActionPending
                 THEN returned'.err = "ok" => actionsC'[id].status = ActionRunning
                 ELSE /\ store' = store
                      /\ returned'.err # "ok"
                      /\ returned'.kind = "begin" =>
                             /\ returned'.err = "ErrExcessiveContention"
                             /\ call.attempt = nrRetries - 1]_vars

\* A Begin has returned the error of the used-up budget on an action that
\* another Begin has made Running.
C13_Witness ==
    /\ returned.kind = "begin"
    /\ returned.err = "ErrExcessiveContention"
    /\ actionsC[returned.id].status = ActionRunning

\* C14: the stamps of an action that are set are ordered
\* Enqueued <= Started <= Completed; Started is zero while the action is
\* Pending and Completed is zero while its status is not an end status.
C14_StampOrder ==
    \A i \in DOMAIN actionsC :
        LET d == actionsC[i]
        IN /\ d.started # 0 => d.enqueued <= d.started
           /\ d.completed # 0 => d.enqueued <= d.completed
           /\ (d.started # 0 /\ d.completed # 0) => d.started <= d.completed
           /\ d.status = ActionPending => d.started = 0
           /\ d.status \notin CompletedStatuses => d.completed = 0

\* C15: with a single action under a fresh operation, the operation is
\* Pending while the action is Pending; a Running action has its Started
\* stamp and a Running operation; a finished action has an operation with its
\* end status (Completed for Completed) and a complete-task-count of 1.
C15_SingleChild ==
    \A i \in DOMAIN actionsC :
        LET d == actionsC[i]
            o == operationsC[d.operation]
        IN /\ d.status = ActionPending => o.status = ActionPending /\ o.count = 0
           /\ d.status = ActionRunning =>
                  d.started # 0 /\ o.status = ActionRunning /\ o.count = 0
           /\ d.status \in CompletedStatuses => o.status = d.status /\ o.count = 1

\* The action has been enqueued, begun and finished Completed.
C15_Witness ==
    \E i \in DOMAIN actionsC :
        /\ actionsC[i].status = ActionCompleted
        /\ actionsC[i].started # 0 /\ actionsC[i].completed # 0
        /\ operationsC[actionsC[i].operation].status = ActionCompleted

C17_OperationNotFound ==
    [][/\ \A i \in DOMAIN actionsC' \ DOMAIN actionsC :
             actionsC'[i].operation \in DOMAIN operationsC
       /\ \A call \in InFlight :
             (/\ call.kind = "enqueue" /\ Moves(call)
              /\ call.a.operation \notin DOMAIN operationsC) =>
                 /\ store' = store
                 /\ returned'.kind = "enqueue" =>
                        returned'.err = IF isNotDead(call.a.receiver)
                                        THEN "operation not found"
                                        ELSE "ErrDead"]_vars

\* An EnqueueAction under a missing operation has returned not-found, after
\* another one has inserted an action under the operation that exists.
C17_Witness ==
    /\ returned.kind = "enqueue" /\ returned.err = "operation not found"
    /\ returned.id \notin DOMAIN actionsC
    /\ actionsC # <<>>

\* C18: the action id is the next value of the "task" sequence (at least 1,
\* in decimal), taken from the sequence, exactly when the receiver is a unit
\* and the agent version is 2.6.999 or above; otherwise it is a UUID and the
\* sequence is not touched.
C18_ActionIdScheme ==
    [][\A call \in InFlight :
          (call.kind = "newActionDoc" /\ Moves(call)) =>
              LET v == call.ver
                  atLeast == \/ v.Major > 2
                             \/ v.Major = 2 /\ v.Minor > 6
                             \/ v.Major = 2 /\ v.Minor = 6 /\ v.Tag = "" /\ v.Patch >= 999
              IN IF call.tag = "unit" /\ atLeast
                 THEN /\ taskSeq' = taskSeq + 1 /\ taskSeq' >= 1
                      /\ returned'.id \in {"1", "2", "3", "4"}
                      /\ returned'.id = <<"1", "2", "3", "4">>[taskSeq']
                 ELSE /\ taskSeq' = taskSeq
                      /\ returned'.id \in UUIDs]_vars

\* After ids from the sequence, an enqueue for a machine or an older agent
\* has got a UUID.
C18_Witness ==
    /\ returned.kind = "newActionDoc"
    /\ taskSeq > 0
    /\ returned.id \in UUIDs

C20_ErrorsChangeNothing ==
    [][/\ (returned'.kind \in {"begin", "finish", "log"} /\ returned'.err # "ok") =>
             store' = store
       /\ \A call \in InFlight :
             (/\ call.kind \in {"begin", "finish", "log"}
              /\ Moves(call)
              /\ store' # store) =>
                 /\ returned' = [kind |-> call.kind, id |-> call.a.id, err |-> "ok"]
                 /\ calls' = calls (-) SetToBag({call})]_vars

\* A Begin on an action that was finished in the meantime has returned the
\* error of the used-up budget.
C20_Witness ==
    /\ returned.kind = "begin"
    /\ returned.err = "ErrExcessiveContention"
    /\ Terminal(returned.id)

\* C21: the step in which an EnqueueAction succeeds inserts one action
\* document, Pending, with zero Started and Completed stamps and the given
\* operation id, and the one notification of that action; it leaves every
\* other action, every other notification and the operations as they were.
C21_EnqueueFrame ==
    [][\A call \in InFlight :
          (/\ call.kind = "enqueue" /\ Moves(call)
           /\ returned'.kind = "enqueue" /\ returned'.err = "ok") =>
              LET id == call.a.id
                  key == notificationKey(call.a.receiver, id)
              IN /\ returned'.id = id
                 /\ id \notin DOMAIN actionsC
                 /\ DOMAIN actionsC' = DOMAIN actionsC \cup {id}
                 /\ \A i \in DOMAIN actionsC : actionsC'[i] = actionsC[i]
                 /\ actionsC'[id].status = ActionPending
                 /\ actionsC'[id].started = 0 /\ actionsC'[id].completed = 0
                 /\ actionsC'[id].operation = call.a.operation
                 /\ actionsC'[id].receiver = call.a.receiver
                 /\ actionsC'[id].name = call.name
                 /\ key \notin actionNotificationsC
                 /\ actionNotificationsC' = actionNotificationsC \cup {key}
                 /\ operationsC' = operationsC]_vars

\* An EnqueueAction has just succeeded under an operation that has a
\* finished child and a count of 1.
C21_Witness ==
    /\ returned.kind = "enqueue" /\ returned.err = "ok"
    /\ \E i \in DOMAIN actionsC :
          /\ i # returned.id /\ Terminal(i)
          /\ actionsC[i].operation = actionsC[returned.id].operation
          /\ operationsC[actionsC[i].operation].count = 1

\* A Finish call commits in this step.
FinishCommits(call) ==
    /\ call.kind = "finish" /\ call.pc = "txn" /\ Moves(call)
    /\ returned'.kind = "finish" /\ returned'.err = "ok"

\* The children of operation o, other than i, that are still Pending or Running.
OutstandingSiblings(o, i) == {j \in Children(o) \ {i} : ~Terminal(j)}

\* C22: a Finish that commits on a child that is not the last outstanding
\* child of its operation leaves the operation's status, Started and Completed
\* as they were, and commits only against the count its snapshot held.
C22_NotLastChangesOnlyCount ==
    [][\A call \in InFlight :
          LET o == call.a.operation
          IN (/\ FinishCommits(call)
              /\ o \in DOMAIN operationsC
              /\ OutstandingSiblings(o, call.a.id) # {}) =>
                 /\ operationsC'[o].status = operationsC[o].status
                 /\ operationsC'[o].started = operationsC[o].started
                 /\ operationsC'[o].completed = operationsC[o].completed
                 /\ call.op.update = "count"
                 /\ operationsC[o].count = call.op.assert]_vars

\* The not-last branch taken by itself: a Finish whose attempt was built from
\* a snapshot with other children outstanding changes only the count of the
\* operation, and commits only against the count of that snapshot.
C22_CountBranch ==
    [][\A call \in InFlight :
          LET o == call.a.operation
          IN (FinishCommits(call) /\ call.op.update = "count") =>
                 /\ operationsC'[o] = [operationsC[o] EXCEPT !.count = call.op.count]
                 /\ operationsC[o].count = call.op.assert]_vars

\* C23: every Finish that commits on a child whose operation exists raises
\* the stored count of the operation by exactly one.
C23_FinishIncrementsCount ==
    [][\A call \in InFlight :
          LET o == call.a.operation
          IN (FinishCommits(call) /\ o \in DOMAIN operationsC) =>
                 operationsC'[o].count = operationsC[o].count + 1]_vars

\* C24: a Finish that commits on an action still Pending takes it to the end
\* status it was given with Started left zero, removes its notification and
\* raises the count of the operation by one; when no other child is
\* outstanding the operation takes an end status, Pending or not before.
C24_FinishPending ==
    [][\A call \in InFlight :
          LET id == call.a.id
              o == call.a.operation
          IN (/\ FinishCommits(call)
              /\ actionsC[id].status = ActionPending
              /\ o \in DOMAIN operationsC) =>
                 /\ actionsC'[id].status = call.results.Status
                 /\ actionsC'[id].status \in CompletedStatuses
                 /\ actionsC'[id].started = 0
                 /\ notificationKey(call.a.receiver, id) \notin actionNotificationsC'
                 /\ operationsC'[o].count = operationsC[o].count + 1
                 /\ OutstandingSiblings(o, id) = {} =>
                        operationsC'[o].status \in CompletedStatuses]_vars

\* The attempt that a lookup or a refresh has just built.
Arrives(call) == CopiesIn(call, calls') > CopiesIn(call, calls)

\* C25: an attempt of Begin on a Pending action, or of Finish on an action
\* not yet finished, that is built when the operation of the action is not
\* found, at the lookup or at a refresh, holds no op on the operation: it
\* writes the action (and removes the notification) only, and so commits.
C25_OperationGone ==
    [][\A call \in BagToSet(calls') :
          LET id == call.a.id
          IN (/\ Arrives(call)
              /\ call.kind \in {"begin", "finish"} /\ call.pc = "txn"
              /\ call.a.operation \notin DOMAIN operationsC
              /\ IF call.kind = "begin" THEN BeginAssert(actionsC[id])
                                        ELSE assertNotComplete(actionsC[id])) =>
                 call.op = NoOp]_vars

\* The errors of EnqueueAction's buildTxn on an attempt after the first.
EnqueueBuildErrors == {"ErrDead", "operation not found", "unexpected attempt number"}

\* C26: EnqueueAction submits its ops once: a transaction step of an
\* EnqueueAction is its first attempt, and the buildTxn that follows an
\* aborted attempt returns one of its three errors to the caller, with
\* nothing inserted.
C26_EnqueueSubmitsOnce ==
    [][\A call \in InFlight :
          (call.kind = "enqueue" /\ Moves(call)) =>
              /\ call.pc = "txn" => call.attempt = 0
              /\ call.pc = "build" =>
                    /\ returned'.kind = "enqueue" /\ returned'.id = call.a.id
                    /\ returned'.err \in EnqueueBuildErrors
                    /\ store' = store
                    /\ call.a.id \notin DOMAIN actionsC'
                    /\ \A c \in BagToSet(calls') : ~Arrives(c)]_vars

\* An EnqueueAction has had its first attempt aborted, the operation not yet
\* being there, and has returned "unexpected attempt number" from its second
\* buildTxn, the operation having come into being; nothing was inserted.
C26_Witness ==
    /\ returned.kind = "enqueue" /\ returned.err = "unexpected attempt number"
    /\ returned.id \notin DOMAIN actionsC
    /\ actionNotificationsC = {}

\* C27: an EnqueueAction with an empty name returns "action name required"
\* whatever the receiver tag, resolvable or not, and the step that returns it
\* takes no id from the sequence, starts no transaction and changes no
\* document; no EnqueueAction goes on with an empty name.
C27_EmptyName ==
    [][/\ \A r \in ReceiverTags : EnqueuePrecheck(r, "") = "action name required"
       /\ (returned'.kind = "enqueue" /\ returned'.err = "action name required") =>
             /\ taskSeq' = taskSeq
             /\ calls' = calls
             /\ store' = store
       /\ \A call \in BagToSet(calls') : call.kind = "enqueue" => call.name # ""
       /\ \A i \in DOMAIN actionsC' : actionsC'[i].name # ""]_vars

\* An EnqueueAction has returned "action name required" after another has
\* taken an id and inserted its action.
C27_Witness ==
    /\ returned.kind = "enqueue" /\ returned.err = "action name required"
    /\ taskSeq = 1 /\ DOMAIN actionsC = {1}

\* value is a prefix of id.
IsPrefix(value, id) == Len(id) >= Len(value) /\ SubSeq(id, 1, Len(value)) = value

\* The local ids of the stored actions.
LocalIds == {localID(id) : id \in DOMAIN actionsC}

\* The agent version is 2.6.999 or above.
AtLeastMinVersion(v) ==
    \/ v.Major > 2
    \/ v.Major = 2 /\ v.Minor > 6
    \/ v.Major = 2 /\ v.Minor = 6 /\ v.Tag = "" /\ v.Patch >= 999

\* What FindActionTagsById is to return: the valid ids that begin with the
\* value when the version is below 2.6.999 or the value has one of "-abcdef",
\* the valid id equal to the value otherwise.
ExpectedTags(idValue, ver) ==
    IF ~AtLeastMinVersion(ver) \/ \E i \in DOMAIN idValue : idValue[i] \in OldIdChars
    THEN {id \in LocalIds : IsPrefix(idValue, id) /\ IsValidAction(id)}
    ELSE {id \in LocalIds : id = idValue /\ IsValidAction(id)}

\* C28: FindActionTagsById returns the valid ids of which the value is a
\* prefix when the agent version does not support new ids or the value has one
\* of the characters "-abcdef", and the valid id equal to the value otherwise.
C28_FindByPrefixOrExact ==
    [][\A call \in InFlight :
          (call.kind = "find" /\ Moves(call)) =>
              returned'.tags = ExpectedTags(call.idValue, call.ver)]_vars

\* The same for the values in which no character is an operator of regular
\* expressions.
C28_FindPlainValues ==
    [][\A call \in InFlight :
          (call.kind = "find" /\ Moves(call) /\ ~ContainsAny(call.idValue, {"."})) =>
              returned'.tags = ExpectedTags(call.idValue, call.ver)]_vars

\* The order of the phases of PruneOperations.
PhaseOrder == <<"orphans", "countOperations", "countActions", "operations">>
PhaseIndex(pc) == CHOOSE k \in DOMAIN PhaseOrder : PhaseOrder[k] = pc

\* C29: a PruneOperations goes through its phases in the order orphaned
\* actions, count of operations, count of actions, operations with children.
\* A step that fails returns the error of that step and ends the call, so no
\* later phase runs; only the last phase returns nil. Operations and their
\* children are deleted in the last phase only, and no step, failing or not,
\* brings back or changes a document.
C29_PrunePhases ==
    [][\A call \in InFlight :
          (call.kind = "prune" /\ Moves(call)) =>
              LET k == PhaseIndex(call.pc)
                  goesOn == \E c \in BagToSet(calls') : Arrives(c)
              IN /\ DOMAIN actionsC' \subseteq DOMAIN actionsC
                 /\ \A i \in DOMAIN actionsC' : actionsC'[i] = actionsC[i]
                 /\ DOMAIN operationsC' \subseteq DOMAIN operationsC
                 /\ \A o \in DOMAIN operationsC' : operationsC'[o] = operationsC[o]
                 /\ k < 4 => /\ operationsC' = operationsC
                             /\ \A i \in DOMAIN actionsC :
                                   actionsC[i].operation # "" => i \in DOMAIN actionsC'
                 /\ k \in {2, 3} => store' = store
                 /\ IF goesOn
                    THEN /\ k < 4
                         /\ \A c \in BagToSet(calls') :
                               Arrives(c) => c = [call EXCEPT !.pc = PhaseOrder[k + 1]]
                         /\ returned' = NoReturn
                    ELSE /\ returned'.kind = "prune"
                         /\ returned'.err = "ok" => k = 4
                         /\ returned'.err # "ok" =>
                               returned'.err =
                                  <<"pruneCollection error",
                                    "retrieving operations collection count",
                                    "retrieving actions collection count",
                                    "pruneCollectionAndChildren error">>[k]]_vars

\* A PruneOperations has deleted an orphaned action and has then failed at the
\* count of the actions: the action stays deleted, and the operation that
\* completed at time 1 and its child are still there.
C29_Witness ==
    /\ returned.kind = "prune"
    /\ returned.err = "retrieving actions collection count"
    /\ calls = EmptyBag
    /\ 1 \notin DOMAIN actionsC
    /\ "op1" \in DOMAIN operationsC /\ 3 \in DOMAIN actionsC

\* C30: a Finish that is given Pending or Running as the final status returns
\* an error and changes no document, so a Finish that commits leaves the
\* action Completed, Cancelled or Failed.
C30_FinalStatusIsTerminal ==
    [][\A call \in InFlight :
          (call.kind = "finish" /\ Moves(call)) =>
              /\ call.results.Status \notin CompletedStatuses =>
                    store' = store /\ returned'.err # "ok"
              /\ FinishCommits(call) =>
                    actionsC'[call.a.id].status \in CompletedStatuses]_vars

\* C31: a Finish with an end status, made with no other call in flight on an
\* action whose stored status is Pending or Running, returns success.
C31_OutstandingCanFinish ==
    [][\A call \in InFlight :
          (/\ call.kind = "finish" /\ Moves(call)
           /\ returned'.kind = "finish"
           /\ ~Terminal(call.a.id)) =>
              returned'.err = "ok"]_vars

\* C32: the stored log of an action never holds more than 1000 messages.
C32_StoredLogBound ==
    \A i \in DOMAIN actionsC : actionsC[i].logs <= MaxLogMessages

\* C33: a Finish on a child that is not finished, with no other Finish on the
\* same child, returns success however many siblings finish while it runs.
C33_SiblingsNeverFailFinish ==
    [][\A call \in InFlight :
          (/\ call.kind = "finish" /\ Moves(call)
           /\ returned'.kind = "finish"
           /\ ~Terminal(call.a.id)
           /\ \A other \in InFlight : other.a.id = call.a.id => other = call
           /\ CopiesIn(call, calls) = 1) =>
              returned'.err = "ok"]_vars

\* C34: an EnqueueAction that fails takes no value from the "task" sequence:
\* whenever no EnqueueAction is in flight, the values taken so far are the ids
\* of the stored actions, 1, 2, ... without a gap.
C34_FailedEnqueueKeepsSequence ==
    (\A call \in InFlight : call.kind # "enqueue") =>
        DOMAIN actionsC = 1..taskSeq

C36_BeginFrame ==
    [][\A call \in InFlight :
          (/\ call.kind = "begin" /\ Moves(call)
           /\ returned'.kind = "begin" /\ returned'.err = "ok") =>
              LET id == call.a.id
                  opid == call.a.operation
              IN /\ actionsC' =
                       [actionsC EXCEPT ![id].status = actionsC'[id].status,
                                        ![id].started = actionsC'[id].started]
                 /\ actionNotificationsC' = actionNotificationsC
                 /\ DOMAIN operationsC' = DOMAIN operationsC
                 /\ \A o \in DOMAIN operationsC :
                       operationsC'[o] =
                           IF o = opid
                           THEN [operationsC[o] EXCEPT
                                    !.status = operationsC'[o].status,
                                    !.started = operationsC'[o].started]
                           ELSE operationsC[o]
                 /\ taskSeq' = taskSeq]_vars

\* A Begin has succeeded on an action whose sibling had finished before: the
\* action is Running and keeps its notification, and the operation counts one
\* completed task.
C36_Witness ==
    /\ returned.kind = "begin" /\ returned.err = "ok"
    /\ returned.id \in DOMAIN actionsC
    /\ actionsC[returned.id].status = ActionRunning
    /\ actionsC[returned.id].completed = 0
    /\ notificationKey(actionsC[returned.id].receiver, returned.id) \in actionNotificationsC
    /\ operationsC[actionsC[returned.id].operation].count = 1

\* C37: in every state, each stored action of a receiver is among the actions
\* of exactly one of the three queries for that receiver, every action of a
\* query for a receiver is a stored action of that receiver, and a query that
\* is called returns the actions of the receiver with Pending, with Running,
\* or with Completed, Cancelled or Failed as their status.
C37_QueriesPartition ==
    /\ [](\A r \in Receivers :
            /\ \A i \in DOMAIN actionsC :
                  actionsC[i].receiver = r =>
                      Cardinality({q \in StatusQueries : i \in matchingActionsOf(q, r)}) = 1
            /\ \A q \in StatusQueries : \A i \in matchingActionsOf(q, r) :
                  actionsC[i].receiver = r)
    /\ [][\A call \in InFlight :
             (call.kind = "match" /\ Moves(call)) =>
                 returned'.actions =
                     {i \in DOMAIN actionsC :
                         /\ actionsC[i].receiver = call.receiver
                         /\ CASE call.query = "pending" -> actionsC[i].status = ActionPending
                              [] call.query = "running" -> actionsC[i].status = ActionRunning
                              [] call.query = "completed" -> Terminal(i)}]_vars

\* The completed query has returned the one failed action of a receiver, while
\* the other receiver has an action as well.
C37_Witness ==
    /\ returned.kind = "match" /\ returned.query = "completed"
    /\ Cardinality(returned.actions) = 1
    /\ \A i \in returned.actions : actionsC[i].status = ActionFailed
    /\ \E i \in DOMAIN actionsC : actionsC[i].receiver # returned.id

\* C38: an EnqueueAction step keeps every stored action and every notification
\* as it is; one that returns success adds exactly one action, under an id that
\* no stored action had, together with its notification, and one whose id is
\* the id of a stored action or of a notification of the receiver returns an
\* error. This holds for ids of the sequence and for UUIDs alike.
C38_EnqueueNeverReplaces ==
    [][\A call \in InFlight :
          (call.kind = "enqueue" /\ Moves(call)) =>
              LET id == call.a.id
                  key == notificationKey(call.a.receiver, id)
              IN /\ \A i \in DOMAIN actionsC :
                       i \in DOMAIN actionsC' /\ actionsC'[i] = actionsC[i]
                 /\ actionNotificationsC \subseteq actionNotificationsC'
                 /\ returned'.err = "ok" =>
                       /\ id \notin DOMAIN actionsC
                       /\ key \notin actionNotificationsC
                       /\ DOMAIN actionsC' = DOMAIN actionsC \cup {id}
                       /\ actionNotificationsC' = actionNotificationsC \cup {key}
                 /\ (id \in DOMAIN actionsC \/ key \in actionNotificationsC) =>
                       /\ store' = store
                       /\ returned'.err # "ok"]_vars

\* An EnqueueAction whose UUID was the id of a stored action of the other
\* receiver, enqueued at an earlier time, has returned an error; the stored
\* action is the earlier one.
C38_Witness ==
    /\ returned.kind = "enqueue"
    /\ returned.err = "unexpected attempt number"
    /\ returned.id \in UUIDs
    /\ returned.id \in DOMAIN actionsC
    /\ actionsC[returned.id].enqueued < clock

\* The calls of the controller API a run of the command has made.
ApiCalls(rec, name) == {k \in DOMAIN rec.api : rec.api[k].call = name}

\* What C39 says of the API calls of one run of the command.
UpgradeAsClaimed(rec) ==
    LET uploads == ApiCalls(rec, "UploadGUIArchive")
        selects == ApiCalls(rec, "SelectGUIVersion")
        reported == {rec.versions[k] : k \in {j \in DOMAIN rec.versions :
                                                rec.versions[j].Version = rec.archive.vers}}
        sameHash == \E v \in reported : v.SHA256 = rec.archive.hash
    IN /\ rec.list => uploads = {} /\ selects = {}
       /\ uploads # {} => ~sameHash
       /\ Cardinality(uploads) <= 1 /\ Cardinality(selects) <= 1
       /\ \A k \in selects :
             /\ ~sameHash => \E u \in uploads : u < k /\ rec.api[u].ok
             /\ IF uploads = {} THEN \A v \in reported : ~v.Current
                ELSE \A u \in uploads : ~rec.api[u].current
       /\ \A u \in uploads : ~rec.api[u].ok => selects = {}

\* C39: a run of the upgrade command uploads the archive only when the
\* controller does not report the hash of the archive for its version; it
\* selects the version only after the upload, where one is required, has
\* succeeded, and only when the version is not the current one, by the answer
\* to the upload if there was one and by the controller's report otherwise; a
\* run whose upload failed returns an error and has selected nothing; a run
\* with --list has uploaded and selected nothing.
C39_UpgradeUploadsAndSelects ==
    /\ \A call \in InFlight : call.kind = "upgrade-gui" => UpgradeAsClaimed(call)
    /\ returned.kind = "upgrade-gui" =>
          /\ UpgradeAsClaimed(returned)
          /\ (\E u \in ApiCalls(returned, "UploadGUIArchive") : ~returned.api[u].ok) =>
                returned.err # "none"

\* A run has returned without error after it uploaded an archive of a version
\* that the controller held as its current one under another hash; the upload
\* answered that the version is not current, and the run selected it.
C39_Witness ==
    /\ returned.kind = "upgrade-gui" /\ returned.err = "none"
    /\ \E v \in Range(returned.versions) :
          /\ v.Version = returned.archive.vers
          /\ v.SHA256 # returned.archive.hash
          /\ v.Current
    /\ \E u \in ApiCalls(returned, "UploadGUIArchive"), k \in ApiCalls(returned, "SelectGUIVersion") :
          u < k /\ returned.api[u].ok /\ ~returned.api[u].current /\ returned.api[k].ok

====
